---- MODULE Spec2Model ----
(***************************************************************************)
(* The placement-and-validation engine of the spatial planning agent:      *)
(* the data model (models.py), the ConstraintValidator (constraints.py),   *)
(* the greedy LayoutOptimizer (optimizer.py) and the calls of the          *)
(* SpatialPlanningAgent (agent.py).                                        *)
(*                                                                         *)
(* Lengths are whole numbers of grid steps (one grid step = 0.5 m, the     *)
(* step of the optimizer's grid search).  The score, a float in the code,  *)
(* is an exact rational [num, den] here.  A distance between two centres   *)
(* is carried as the square of twice the distance, which is an integer.    *)
(***************************************************************************)
EXTENDS Integers, Sequences, FiniteSets, TLC

\* ------------------------------------------------------------ bounds
MaxRooms == 2
MaxRoomWidth == 2
MaxRoomHeight == 1
MaxSpaceWidth == 3
MaxSpaceHeight == 2
\* validate_layout's own inputs: the corner of a positioned room, the limit of a constraint
MaxPositionX == 1
MaxPositionY == 1
MaxDistance == 2
\* the number of calls made on one agent
MaxCalls == 3

\* ------------------------------------------------------------ constants
\* optimizer.py:69, grid_step = 0.5 m: the unit of length of the model
grid_step == 1
\* constraints.py:133, the default max_distance of 1.0 m, in grid steps
DefaultMaxDistance == 2
\* constraints.py:113, the default distance of 0
DefaultMinDistance == 0
\* models.py:34, priority: ge=1, le=10
MinPriority == 1
MaxPriority == 10

\* ------------------------------------------------------------ data model
\* Optional[...] = None
None == [none |-> TRUE]

Dimensions(w, h) == [width |-> w, height |-> h]

Position(px, py) == [x |-> px, y |-> py]

Room(rid, rname, dims, rtype, pos, prio) ==
    [id |-> rid, name |-> rname, dimensions |-> dims, room_type |-> rtype,
     position |-> pos, priority |-> prio]

Constraint(ctype, cparams) == [type |-> ctype, params |-> cparams]

Space(dims, rs, cs) == [dimensions |-> dims, rooms |-> rs, constraints |-> cs]

DimArea(d) == d.width * d.height

RoomArea(r) == DimArea(r.dimensions)

SpaceArea(sp) == DimArea(sp.dimensions)

\* dict.get(key, default)
Get(params, key, default) == IF key \in DOMAIN params THEN params[key] ELSE default

\* ------------------------------------------------------------ rationals
Rat(n, d) == [num |-> n, den |-> d]

RAdd(a, b) == Rat(a.num * b.den + b.num * a.den, a.den * b.den)

RSub(a, b) == Rat(a.num * b.den - b.num * a.den, a.den * b.den)

RMulInt(a, k) == Rat(a.num * k, a.den)

RLe(a, b) == a.num * b.den <= b.num * a.den

RLt(a, b) == a.num * b.den < b.num * a.den

REq(a, b) == a.num * b.den = b.num * a.den

RECURSIVE SumSeq(_)
SumSeq(s) == IF s = <<>> THEN 0 ELSE Head(s) + SumSeq(Tail(s))

\* ------------------------------------------------------------ validator
X2(r) == r.position.x + r.dimensions.width

Y2(r) == r.position.y + r.dimensions.height

Message(kind, n1, n2, lhs, rhs) ==
    [kind |-> kind, room1 |-> n1, room2 |-> n2, lhs |-> lhs, rhs |-> rhs]

\* the bounds test with >= for >
RoomBoundsInclusive(sp, room) ==
    IF room.position = None THEN <<>>
    ELSE (IF X2(room) >= sp.dimensions.width
          THEN <<Message("width", room.name, "", X2(room), sp.dimensions.width)>>
          ELSE <<>>)
         \o
         (IF Y2(room) >= sp.dimensions.height
          THEN <<Message("height", room.name, "", Y2(room), sp.dimensions.height)>>
          ELSE <<>>)

RoomBounds(sp, room) ==
    IF room.position = None THEN <<>>
    ELSE (IF X2(room) > sp.dimensions.width
          THEN <<Message("width", room.name, "", X2(room), sp.dimensions.width)>>
          ELSE <<>>)
         \o
         (IF Y2(room) > sp.dimensions.height
          THEN <<Message("height", room.name, "", Y2(room), sp.dimensions.height)>>
          ELSE <<>>)

RECURSIVE _check_bounds(_, _)
_check_bounds(sp, rooms) ==
    IF rooms = <<>> THEN <<>>
    ELSE RoomBounds(sp, Head(rooms)) \o _check_bounds(sp, Tail(rooms))

\* the overlap test with < for <=: rooms that share an edge overlap
RoomsOverlapTouching(room1, room2) ==
    IF room1.position = None \/ room2.position = None THEN FALSE
    ELSE ~(X2(room1) < room2.position.x \/ X2(room2) < room1.position.x
           \/ Y2(room1) < room2.position.y \/ Y2(room2) < room1.position.y)

_rooms_overlap(room1, room2) ==
    IF room1.position = None \/ room2.position = None THEN FALSE
    ELSE ~(X2(room1) <= room2.position.x \/ X2(room2) <= room1.position.x
           \/ Y2(room1) <= room2.position.y \/ Y2(room2) <= room1.position.y)

\* the inner loop of _check_overlaps: room1 against rooms[i + 1:]
RECURSIVE OverlapsWith(_, _)
OverlapsWith(room1, rest) ==
    IF rest = <<>> THEN <<>>
    ELSE (IF Head(rest).position # None /\ _rooms_overlap(room1, Head(rest))
          THEN <<Message("overlap", room1.name, Head(rest).name, 0, 0)>>
          ELSE <<>>)
         \o OverlapsWith(room1, Tail(rest))

\* _check_overlaps with the inner loop over rooms instead of rooms[i + 1:]
CheckOverlapsAllPairs(rooms) ==
    LET RECURSIVE Outer(_)
        Outer(rest) ==
            IF rest = <<>> THEN <<>>
            ELSE (IF Head(rest).position = None THEN <<>>
                  ELSE OverlapsWith(Head(rest), rooms))
                 \o Outer(Tail(rest))
    IN  Outer(rooms)

RECURSIVE _check_overlaps(_)
_check_overlaps(rooms) ==
    IF rooms = <<>> THEN <<>>
    ELSE (IF Head(rooms).position = None THEN <<>>
          ELSE OverlapsWith(Head(rooms), Tail(rooms)))
         \o _check_overlaps(Tail(rooms))

\* next((r for r in rooms if r.id == rid), None); rid = None matches no room
RECURSIVE FindRoom(_, _, _)
FindRoom(rooms, params, key) ==
    IF rooms = <<>> \/ key \notin DOMAIN params THEN None
    ELSE IF Head(rooms).id = params[key] THEN Head(rooms)
         ELSE FindRoom(Tail(rooms), params, key)

\* the square of twice the distance between the two centres
_calculate_distance(room1, room2) ==
    LET dx == (2 * room1.position.x + room1.dimensions.width)
              - (2 * room2.position.x + room2.dimensions.width)
        dy == (2 * room1.position.y + room1.dimensions.height)
              - (2 * room2.position.y + room2.dimensions.height)
    IN  dx * dx + dy * dy

\* a value of a params mapping that is compared with a distance: a number (in grid
\* steps), or a value that is no number (a string, None)
Num(v) == [numeric |-> TRUE, value |-> v]

NotANumber == [numeric |-> FALSE, value |-> 0]

\* what a check returns: its violation messages, or raised = TRUE when it raised
Returned(vs) == [raised |-> FALSE, violations |-> vs]

Raised == [raised |-> TRUE, violations |-> <<>>]

\* dist <= limit for dist < limit
DistLessInclusive(q, limit) == limit >= 0 /\ q <= 4 * limit * limit

\* dist < limit, for dist = sqrt(q) / 2
DistLess(q, limit) == limit > 0 /\ q < 4 * limit * limit

\* dist > limit, for dist = sqrt(q) / 2
DistGreater(q, limit) == limit < 0 \/ q > 4 * limit * limit

_check_min_distance(rooms, constraint) ==
    LET min_dist == Get(constraint.params, "distance", Num(DefaultMinDistance))
        room1 == FindRoom(rooms, constraint.params, "room1")
        room2 == FindRoom(rooms, constraint.params, "room2")
    IN  IF room1 # None /\ room2 # None
           /\ room1.position # None /\ room2.position # None
        THEN LET dist == _calculate_distance(room1, room2)
             IN  IF ~min_dist.numeric THEN Raised
                 ELSE IF DistLess(dist, min_dist.value)
                 THEN Returned(<<Message("min_distance", room1.name, room2.name,
                                         dist, min_dist.value)>>)
                 ELSE Returned(<<>>)
        ELSE Returned(<<>>)

_check_adjacency(rooms, constraint) ==
    LET max_dist == Get(constraint.params, "max_distance", Num(DefaultMaxDistance))
        room1 == FindRoom(rooms, constraint.params, "room1")
        room2 == FindRoom(rooms, constraint.params, "room2")
    IN  IF room1 # None /\ room2 # None
           /\ room1.position # None /\ room2.position # None
        THEN LET dist == _calculate_distance(room1, room2)
             IN  IF ~max_dist.numeric THEN Raised
                 ELSE IF DistGreater(dist, max_dist.value)
                 THEN Returned(<<Message("adjacency", room1.name, room2.name,
                                         dist, max_dist.value)>>)
                 ELSE Returned(<<>>)
        ELSE Returned(<<>>)

\* the dispatch with a plain else for the adjacency branch
CheckConstraintElseAdjacency(rooms, constraint) ==
    IF constraint.type = "min_distance" THEN _check_min_distance(rooms, constraint)
    ELSE _check_adjacency(rooms, constraint)

\* the body of the loop of _check_custom_constraints
CheckConstraint(rooms, constraint) ==
    IF constraint.type = "min_distance" THEN _check_min_distance(rooms, constraint)
    ELSE IF constraint.type = "adjacency" THEN _check_adjacency(rooms, constraint)
    ELSE Returned(<<>>)

\* the loop of _check_custom_constraints over the constraints left, vs collected so far
RECURSIVE CheckConstraints(_, _, _)
CheckConstraints(rooms, constraints, vs) ==
    IF constraints = <<>> THEN Returned(vs)
    ELSE LET r == CheckConstraint(rooms, Head(constraints))
         IN  IF r.raised THEN Raised
             ELSE CheckConstraints(rooms, Tail(constraints), vs \o r.violations)

_check_custom_constraints(sp, rooms) == CheckConstraints(rooms, sp.constraints, <<>>)

validate_layout(sp, rooms) ==
    LET custom == _check_custom_constraints(sp, rooms)
    IN  IF custom.raised THEN Raised
        ELSE Returned(_check_bounds(sp, rooms) \o _check_overlaps(rooms)
                      \o custom.violations)

\* ------------------------------------------------------------ optimizer
\* best_score = -float('inf')
NegInf == [finite |-> FALSE, value |-> 0]

Finite(v) == [finite |-> TRUE, value |-> v]

\* pos_score >= best_score: a later candidate of the same score replaces the best
ScoreAtLeast(pos_score, best_score) ==
    ~best_score.finite \/ pos_score >= best_score.value

\* pos_score > best_score
ScoreGreater(pos_score, best_score) ==
    ~best_score.finite \/ pos_score > best_score.value

\* the insertion that puts room r before the rooms of its own priority: not stable
RECURSIVE InsertBeforeEqual(_, _)
InsertBeforeEqual(r, s) ==
    IF s = <<>> THEN <<r>>
    ELSE IF Head(s).priority > r.priority
         THEN <<Head(s)>> \o InsertBeforeEqual(r, Tail(s))
         ELSE <<r>> \o s

\* one step of the insertion of room r into the stable descending order
RECURSIVE InsertByPriority(_, _)
InsertByPriority(r, s) ==
    IF s = <<>> THEN <<r>>
    ELSE IF Head(s).priority >= r.priority
         THEN <<Head(s)>> \o InsertByPriority(r, Tail(s))
         ELSE <<r>> \o s

\* sorted without reverse=True: ascending priority
RECURSIVE SortAscending(_)
SortAscending(rooms) ==
    IF rooms = <<>> THEN <<>>
    ELSE LET rest == SortAscending(SubSeq(rooms, 1, Len(rooms) - 1))
             r == rooms[Len(rooms)]
         IN  SelectSeq(rest, LAMBDA q : q.priority <= r.priority) \o <<r>>
             \o SelectSeq(rest, LAMBDA q : q.priority > r.priority)

\* sorted(rooms, key=lambda r: r.priority, reverse=True): stable
RECURSIVE SortByPriority(_)
SortByPriority(rooms) ==
    IF rooms = <<>> THEN <<>>
    ELSE InsertByPriority(rooms[Len(rooms)], SortByPriority(SubSeq(rooms, 1, Len(rooms) - 1)))

\* the template itself appended for a positioned copy of it
WithPositionSameRoom(room, position) == room

\* the positioned copy built without priority=room.priority: the default priority 5
WithPositionDefaultPriority(room, position) ==
    Room(room.id, room.name, room.dimensions, room.room_type, position, 5)

WithPosition(room, position) ==
    Room(room.id, room.name, room.dimensions, room.room_type, position, room.priority)

\* _has_overlap with r2_x2 written for r2_x1 in the first comparison
RECURSIVE HasOverlapWrongCorner(_, _)
HasOverlapWrongCorner(room, placed_rooms) ==
    IF room.position = None \/ placed_rooms = <<>> THEN FALSE
    ELSE LET placed == Head(placed_rooms)
         IN  IF placed.position = None THEN HasOverlapWrongCorner(room, Tail(placed_rooms))
             ELSE IF ~(X2(room) <= X2(placed) \/ X2(placed) <= room.position.x
                       \/ Y2(room) <= placed.position.y \/ Y2(placed) <= room.position.y)
                  THEN TRUE
                  ELSE HasOverlapWrongCorner(room, Tail(placed_rooms))

RECURSIVE _has_overlap(_, _)
_has_overlap(room, placed_rooms) ==
    IF room.position = None \/ placed_rooms = <<>> THEN FALSE
    ELSE LET placed == Head(placed_rooms)
         IN  IF placed.position = None THEN _has_overlap(room, Tail(placed_rooms))
             ELSE IF ~(X2(room) <= placed.position.x \/ X2(placed) <= room.position.x
                       \/ Y2(room) <= placed.position.y \/ Y2(placed) <= room.position.y)
                  THEN TRUE
                  ELSE _has_overlap(room, Tail(placed_rooms))

\* _score_position without the minus sign
ScorePositionNoMinus(position) == position.x + position.y

_score_position(position) == -(position.x + position.y)

\* the inner loop with the room's width left out of the loop condition
RECURSIVE ScanRowToSpaceWidth(_, _, _, _, _, _)
ScanRowToSpaceWidth(sp, room, placed_rooms, x, y, best) ==
    IF x <= sp.dimensions.width
    THEN LET position == Position(x, y)
             temp_room == WithPosition(room, position)
             pos_score == _score_position(position)
         IN  IF ScoreGreater(pos_score, best.best_score)
                /\ ~_has_overlap(temp_room, placed_rooms)
             THEN ScanRowToSpaceWidth(sp, room, placed_rooms, x + grid_step, y,
                          [best_position |-> position, best_score |-> Finite(pos_score)])
             ELSE ScanRowToSpaceWidth(sp, room, placed_rooms, x + grid_step, y, best)
    ELSE best

\* the inner loop with a candidate also rejected when the constraints of the space
\* would be violated with the room there
RECURSIVE ScanRowValidated(_, _, _, _, _, _)
ScanRowValidated(sp, room, placed_rooms, x, y, best) ==
    IF x + room.dimensions.width <= sp.dimensions.width
    THEN LET position == Position(x, y)
             temp_room == WithPosition(room, position)
             pos_score == _score_position(position)
         IN  IF ScoreGreater(pos_score, best.best_score)
                /\ ~_has_overlap(temp_room, placed_rooms)
                /\ validate_layout(sp, Append(placed_rooms, temp_room)).violations = <<>>
             THEN ScanRowValidated(sp, room, placed_rooms, x + grid_step, y,
                          [best_position |-> position, best_score |-> Finite(pos_score)])
             ELSE ScanRowValidated(sp, room, placed_rooms, x + grid_step, y, best)
    ELSE best

\* the inner loop of _find_best_position, from candidate (x, y) to the end of row y.
\* The overlap test and the score test are pure, so the conjunction is taken score
\* first: best is then evaluated at every candidate and no chain of pending rows
\* builds up in the evaluator.
RECURSIVE ScanRow(_, _, _, _, _, _)
ScanRow(sp, room, placed_rooms, x, y, best) ==
    IF x + room.dimensions.width <= sp.dimensions.width
    THEN LET position == Position(x, y)
             temp_room == WithPosition(room, position)
             pos_score == _score_position(position)
         IN  IF ScoreGreater(pos_score, best.best_score)
                /\ ~_has_overlap(temp_room, placed_rooms)
             THEN ScanRow(sp, room, placed_rooms, x + grid_step, y,
                          [best_position |-> position, best_score |-> Finite(pos_score)])
             ELSE ScanRow(sp, room, placed_rooms, x + grid_step, y, best)
    ELSE best

\* the outer loop with the room's height left out of the loop condition
RECURSIVE ScanGridToSpaceHeight(_, _, _, _, _)
ScanGridToSpaceHeight(sp, room, placed_rooms, y, best) ==
    IF y <= sp.dimensions.height
    THEN ScanGridToSpaceHeight(sp, room, placed_rooms, y + grid_step,
                               ScanRow(sp, room, placed_rooms, 0, y, best))
    ELSE best

\* while y + room.dimensions.height <= self.space.dimensions.height
RECURSIVE ScanGrid(_, _, _, _, _)
ScanGrid(sp, room, placed_rooms, y, best) ==
    IF y + room.dimensions.height <= sp.dimensions.height
    THEN ScanGrid(sp, room, placed_rooms, y + grid_step,
                  ScanRow(sp, room, placed_rooms, 0, y, best))
    ELSE best

_find_best_position(sp, room, placed_rooms) ==
    ScanGrid(sp, room, placed_rooms, 0,
             [best_position |-> None, best_score |-> NegInf]).best_position

RECURSIVE SumArea(_)
SumArea(rooms) == IF rooms = <<>> THEN 0 ELSE RoomArea(Head(rooms)) + SumArea(Tail(rooms))

\* sum((r.position.x + r.position.y) for r in placed_rooms if r.position)
RECURSIVE SumCorner(_)
SumCorner(rooms) ==
    IF rooms = <<>> THEN 0
    ELSE (IF Head(rooms).position # None
          THEN Head(rooms).position.x + Head(rooms).position.y ELSE 0)
         + SumCorner(Tail(rooms))

PlacementRatio(sp, placed_rooms) ==
    IF sp.rooms # <<>> THEN Rat(Len(placed_rooms), Len(sp.rooms)) ELSE Rat(0, 1)

\* the utilization bonus with 0.6 < utilization for 0.6 <= utilization
UtilizationBonusStrict(sp, placed_rooms) ==
    LET utilization == IF SpaceArea(sp) > 0
                       THEN Rat(SumArea(placed_rooms), SpaceArea(sp)) ELSE Rat(0, 1)
    IN  IF RLt(Rat(6, 10), utilization) /\ RLe(utilization, Rat(8, 10)) THEN 20
        ELSE IF RLt(Rat(8, 10), utilization) THEN 10
        ELSE 0

UtilizationBonus(sp, placed_rooms) ==
    LET utilization == IF SpaceArea(sp) > 0
                       THEN Rat(SumArea(placed_rooms), SpaceArea(sp)) ELSE Rat(0, 1)
    IN  IF RLe(Rat(6, 10), utilization) /\ RLe(utilization, Rat(8, 10)) THEN 20
        ELSE IF RLt(Rat(8, 10), utilization) THEN 10
        ELSE 0

CompactnessBonus(sp, placed_rooms) ==
    IF placed_rooms # <<>>
    THEN LET avg_distance == Rat(SumCorner(placed_rooms), Len(placed_rooms))
             max_distance == sp.dimensions.width + sp.dimensions.height
             compactness == RSub(Rat(1, 1), Rat(avg_distance.num, avg_distance.den * max_distance))
         IN  RMulInt(compactness, 10)
    ELSE Rat(0, 1)

_calculate_score(sp, placed_rooms, violations) ==
    LET s1 == RAdd(Rat(0, 1), RMulInt(PlacementRatio(sp, placed_rooms), 100))
        s2 == RSub(s1, Rat(Len(violations) * 10, 1))
        s3 == RAdd(s2, Rat(UtilizationBonus(sp, placed_rooms), 1))
    IN  RAdd(s3, CompactnessBonus(sp, placed_rooms))

Metadata(sp, placed_rooms) ==
    [total_rooms |-> Len(sp.rooms),
     placed_rooms |-> Len(placed_rooms),
     placement_rate |-> PlacementRatio(sp, placed_rooms),
     algorithm |-> "greedy_priority"]

Layout(sp, placed_rooms, score, violations, metadata) ==
    [space |-> sp, placed_rooms |-> placed_rooms, score |-> score,
     violations |-> violations, metadata |-> metadata]

is_valid(lay) == Len(lay.violations) = 0

\* optimizer.py:27-39, the placement loop from room k of sorted on
RECURSIVE PlaceRooms(_, _, _, _)
PlaceRooms(sp, sorted, k, placed) ==
    IF k > Len(sorted) THEN placed
    ELSE LET room == sorted[k]
             position == _find_best_position(sp, room, placed)
         IN  IF position # None
             THEN PlaceRooms(sp, sorted, k + 1, Append(placed, WithPosition(room, position)))
             ELSE PlaceRooms(sp, sorted, k + 1, placed)

\* LayoutOptimizer(sp).generate_layout() as one call: the Layout, or Raised
generate_layout(sp) ==
    LET placed == PlaceRooms(sp, SortByPriority(sp.rooms), 1, <<>>)
        validated == validate_layout(sp, placed)
    IN  IF validated.raised THEN Raised
        ELSE Layout(sp, placed, _calculate_score(sp, placed, validated.violations),
                    validated.violations, Metadata(sp, placed))

\* ------------------------------------------------------------ export
\* Space.total_room_area: all the rooms of the request
total_room_area(sp) == SumArea(sp.rooms)

\* Space.utilization
utilization(sp) ==
    IF SpaceArea(sp) > 0 THEN Rat(total_room_area(sp), SpaceArea(sp)) ELSE Rat(0, 1)

\* Layout.to_json_dict
to_json_dict(lay) ==
    [dimensions |-> [width |-> lay.space.dimensions.width,
                     height |-> lay.space.dimensions.height,
                     area |-> SpaceArea(lay.space)],
     rooms |-> [k \in 1..Len(lay.placed_rooms) |->
                  LET room == lay.placed_rooms[k]
                  IN  [id |-> room.id, name |-> room.name, type |-> room.room_type,
                       dimensions |-> [width |-> room.dimensions.width,
                                       height |-> room.dimensions.height,
                                       area |-> RoomArea(room)],
                       position |-> room.position]],
     metrics |-> [score |-> lay.score,
                  utilization |-> utilization(lay.space),
                  is_valid |-> is_valid(lay),
                  violations |-> lay.violations],
     metadata |-> lay.metadata]

\* ------------------------------------------------------------ agent
\* the ids create_space gives to rooms that bring none: room_<index>
DefaultRoomIds == <<"room_0", "room_1", "room_2", "room_3">>

\* pydantic's validation of the fields create_space passes on: gt=0, ge=1, le=10
ValidDimensions(w, h) == w > 0 /\ h > 0

ValidRoomData(room_data, k) ==
    /\ ValidDimensions(room_data.width, room_data.height)
    /\ Get(room_data, "priority", 5) \in MinPriority..MaxPriority

\* agent.py:50-59
ParseRoom(room_data, k) ==
    Room(Get(room_data, "id", DefaultRoomIds[k]), room_data.name,
         Dimensions(room_data.width, room_data.height),
         Get(room_data, "type", "general"), None, Get(room_data, "priority", 5))

\* agent.py:66-70
ParseConstraint(constraint_data) ==
    Constraint(constraint_data.type, Get(constraint_data, "params", <<>>))

\* agent.py:44-77: the Space create_space builds, or Raised when validation fails
create_space(width, height, rooms, constraints) ==
    IF /\ ValidDimensions(width, height)
       /\ \A k \in 1..Len(rooms) : ValidRoomData(rooms[k], k)
    THEN Space(Dimensions(width, height),
               [k \in 1..Len(rooms) |-> ParseRoom(rooms[k], k)],
               [k \in 1..Len(constraints) |-> ParseConstraint(constraints[k])])
    ELSE Raised

\* generate_layout without the fallback to current_space
ResolveSpaceArgumentOnly(sp, current) == sp

\* the argument test of generate_layout taken the other way round
ResolveSpaceCurrentFirst(sp, current) == IF current # None THEN current ELSE sp

\* agent.py:91-92
ResolveSpace(sp, current) == IF sp = None THEN current ELSE sp

\* ------------------------------------------------------------ inputs
RoomIds == <<"room_0", "room_1", "room_2", "room_3">>

RoomNames == <<"Room 0", "Room 1", "Room 2", "Room 3">>

Priorities == {MinPriority, MaxPriority}

RoomShapes == {Dimensions(w, h) : w \in 1..MaxRoomWidth, h \in 1..MaxRoomHeight}

\* the room lists create_space builds: ids room_<index>, type "general", unplaced
RoomLists ==
    UNION {{[k \in 1..n |-> Room(RoomIds[k], RoomNames[k], f[k][1], "general", None, f[k][2])] :
              f \in [1..n -> RoomShapes \X Priorities]} : n \in 0..MaxRooms}

SpaceDimensions ==
    {Dimensions(w, h) : w \in 1..MaxSpaceWidth, h \in 1..MaxSpaceHeight}

Params2(a, b) == [k \in {"room1", "room2"} |-> IF k = "room1" THEN a ELSE b]

Params3(a, b, key, d) ==
    [k \in {"room1", "room2", key} |-> IF k = "room1" THEN a ELSE IF k = "room2" THEN b ELSE d]

ConstraintLists ==
    {<<>>,
     <<Constraint("min_distance", Params3("room_0", "room_1", "distance", Num(2)))>>,
     <<Constraint("adjacency", Params3("room_0", "room_1", "max_distance", Num(1)))>>,
     <<Constraint("alignment", Params2("room_0", "room_1"))>>,
     <<Constraint("min_distance", Params3("room_0", "room_1", "distance", Num(2))),
       Constraint("adjacency", Params3("room_0", "room_1", "max_distance", Num(1)))>>}

\* examples/demo.py:27-35: 10 m x 8 m, rooms 5x4, 4x3, 3x3 with priorities 9, 8, 7
DemoSpace ==
    Space(Dimensions(20, 16),
          <<Room("room_0", "Living Room", Dimensions(10, 8), "general", None, 9),
            Room("room_1", "Bedroom", Dimensions(8, 6), "general", None, 8),
            Room("room_2", "Kitchen", Dimensions(6, 6), "general", None, 7)>>,
          <<>>)

\* ------------------------------------------------------------ generate_layout
VARIABLES
    space,          \* self.space of the LayoutOptimizer
    pc,             \* where generate_layout is: "start", "loop", "done" ("off": not called)
    sorted_rooms,   \* optimizer.py:23
    i,              \* the index in sorted_rooms of the room the loop takes next
    placed_rooms,   \* optimizer.py:25
    layout,         \* the Layout returned, None before
    v_pc,           \* where validate_layout is: "bounds", "overlaps", "custom", "done"
    v_rooms,        \* the rooms argument of validate_layout
    violations,     \* constraints.py:20
    current_space,  \* agent.py:22
    current_layout, \* agent.py:23
    history,        \* the calls made on the agent so far, with what each returned or raised
    calls           \* the generate_layout calls in progress on the agent, one per caller

vars == <<space, pc, sorted_rooms, i, placed_rooms, layout, v_pc, v_rooms, violations,
          current_space, current_layout, history, calls>>

v_vars == <<v_pc, v_rooms, violations>>

a_vars == <<current_space, current_layout, history, calls>>

\* agent.py:20-23, with no call made
NewAgent ==
    /\ current_space = None
    /\ current_layout = None
    /\ history = <<>>
    /\ calls = <<>>

\* a space of any size, with any request and one of the constraint lists
GeneralSpace ==
    \E d \in SpaceDimensions, rs \in RoomLists, cs \in ConstraintLists :
        space = Space(d, rs, cs)

\* a space of area 5, where the placed rooms can fill exactly 0.6 and 0.8 of it
UtilizationSpace ==
    \E rs \in RoomLists : space = Space(Dimensions(5, 1), rs, <<>>)

Init ==
    /\ GeneralSpace \/ UtilizationSpace \/ space = DemoSpace
    /\ pc = "start"
    /\ sorted_rooms = <<>>
    /\ i = 1
    /\ placed_rooms = <<>>
    /\ layout = None
    /\ v_pc = "off"
    /\ v_rooms = <<>>
    /\ violations = <<>>
    /\ NewAgent

\* optimizer.py:23-25
Begin ==
    /\ pc = "start"
    /\ sorted_rooms' = SortByPriority(space.rooms)
    /\ placed_rooms' = <<>>
    /\ i' = 1
    /\ pc' = "loop"
    /\ UNCHANGED <<space, layout, v_vars, a_vars>>

\* optimizer.py:27-39, one iteration of the placement loop
PlaceRoom ==
    /\ pc = "loop"
    /\ i <= Len(sorted_rooms)
    /\ LET room == sorted_rooms[i]
           position == _find_best_position(space, room, placed_rooms)
       IN  placed_rooms' = IF position # None
                           THEN Append(placed_rooms, WithPosition(room, position))
                           ELSE placed_rooms
    /\ i' = i + 1
    /\ UNCHANGED <<space, pc, sorted_rooms, layout, v_vars, a_vars>>

\* optimizer.py:41-61
Finish ==
    /\ pc = "loop"
    /\ i > Len(sorted_rooms)
    /\ LET validated == validate_layout(space, placed_rooms)
           score == _calculate_score(space, placed_rooms, validated.violations)
       IN  IF validated.raised
           THEN /\ pc' = "raised"
                /\ layout' = layout
           ELSE /\ pc' = "done"
                /\ layout' = Layout(space, placed_rooms, score, validated.violations,
                                    Metadata(space, placed_rooms))
    /\ UNCHANGED <<space, sorted_rooms, i, placed_rooms, v_vars, a_vars>>

Next == Begin \/ PlaceRoom \/ Finish

Spec == Init /\ [][Next]_vars

\* ------------------------------------------------------------ validate_layout
Positions == {Position(px, py) : px \in 0..MaxPositionX, py \in 0..MaxPositionY}

\* the smallest and the largest room shape
ValidatedShapes == {Dimensions(1, 1), Dimensions(MaxRoomWidth, MaxRoomHeight)}

ValidatedIds == {"r1", "r2"}

\* room lists of any shape and position (placed or not), ids room_<index>
GeometryRoomLists ==
    UNION {{[k \in 1..n |-> Room(RoomIds[k], RoomNames[k], f[k][1], "general", f[k][2], 5)] :
              f \in [1..n -> ValidatedShapes \X (Positions \cup {None})]} : n \in 0..MaxRooms}

\* room lists of unit rooms with ids r1, r2 (unique or not), placed or not
ConstrainedRoomLists ==
    UNION {{[k \in 1..n |-> Room(f[k][1], RoomNames[k], Dimensions(1, 1), "general", f[k][2], 5)] :
              f \in [1..n -> ValidatedIds \X (Positions \cup {None})]} : n \in 0..MaxRooms}

Params1(a) == [k \in {"room1"} |-> a]

Limits == {Num(d) : d \in 1..MaxDistance} \cup {NotANumber}

DistanceConstraints ==
    {Constraint("min_distance", Params3("r1", "r2", "distance", d)) : d \in Limits}
    \cup {Constraint("adjacency", Params3("r1", "r2", "max_distance", d)) : d \in Limits}
    \cup {Constraint(t, Params2("r1", "r2")) : t \in {"min_distance", "adjacency"}}
    \cup {Constraint(t, Params1("r1")) : t \in {"min_distance", "adjacency"}}
    \cup {Constraint("alignment", Params3("r1", "r2", k, NotANumber)) :
               k \in {"distance", "max_distance"}}

\* a call on rooms of any shape and position, in a space of any size
GeometryInput ==
    \E d \in SpaceDimensions, rs \in GeometryRoomLists :
        /\ space = Space(d, <<>>, <<>>)
        /\ v_rooms = rs

\* a call on unit rooms, in a space with one custom constraint
ConstrainedInput ==
    \E c \in DistanceConstraints, rs \in ConstrainedRoomLists :
        /\ space = Space(Dimensions(MaxSpaceWidth, MaxSpaceHeight), <<>>, <<c>>)
        /\ v_rooms = rs

InitValidate ==
    /\ GeometryInput \/ ConstrainedInput
    /\ v_pc = "bounds"
    /\ violations = <<>>
    /\ pc = "off"
    /\ sorted_rooms = <<>>
    /\ i = 1
    /\ placed_rooms = <<>>
    /\ layout = None
    /\ NewAgent

g_vars == <<pc, sorted_rooms, i, placed_rooms, layout>>

\* constraints.py:20-23
CheckBounds ==
    /\ v_pc = "bounds"
    /\ violations' = violations \o _check_bounds(space, v_rooms)
    /\ v_pc' = "overlaps"
    /\ UNCHANGED <<space, v_rooms, g_vars, a_vars>>

\* constraints.py:26
CheckOverlaps ==
    /\ v_pc = "overlaps"
    /\ violations' = violations \o _check_overlaps(v_rooms)
    /\ v_pc' = "custom"
    /\ UNCHANGED <<space, v_rooms, g_vars, a_vars>>

\* constraints.py:29-31
CheckCustom ==
    /\ v_pc = "custom"
    /\ LET custom == _check_custom_constraints(space, v_rooms)
       IN  IF custom.raised
           THEN /\ v_pc' = "raised"
                /\ violations' = violations
           ELSE /\ v_pc' = "done"
                /\ violations' = violations \o custom.violations
    /\ UNCHANGED <<space, v_rooms, g_vars, a_vars>>

NextValidate == CheckBounds \/ CheckOverlaps \/ CheckCustom

SpecValidate == InitValidate /\ [][NextValidate]_vars

\* ------------------------------------------------------------ agent calls
\* the rooms argument of create_space: two rooms that both fit, two of which only
\* the first fits, or none
AgentRooms ==
    {<<>>,
     <<[name |-> "Room 0", width |-> MaxRoomWidth, height |-> 1, priority |-> MaxPriority],
       [name |-> "Room 1", width |-> MaxRoomWidth, height |-> 1]>>,
     <<[name |-> "Room 0", width |-> MaxRoomWidth, height |-> MaxSpaceHeight],
       [id |-> "b", name |-> "Room 1", width |-> MaxRoomWidth, height |-> MaxSpaceHeight,
        type |-> "bedroom", priority |-> MinPriority]>>}

\* the constraints argument of create_space
AgentConstraints ==
    {<<>>,
     <<[type |-> "min_distance",
        params |-> Params3("room_0", "room_1", "distance", Num(MaxDistance))]>>}

\* the width argument of create_space: 0 fails the validation of Dimensions
AgentWidths == {0, MaxSpaceWidth}

\* the Space values a caller holds and passes to generate_layout
AgentSpaces ==
    {create_space(MaxSpaceWidth, MaxSpaceHeight, rs, cs) :
        rs \in AgentRooms, cs \in AgentConstraints}

\* one completed call on the agent
Call(op, arg, raised, value) == [op |-> op, arg |-> arg, raised |-> raised, value |-> value]

InitAgent ==
    /\ NewAgent
    /\ space = None
    /\ pc = "off"
    /\ sorted_rooms = <<>>
    /\ i = 1
    /\ placed_rooms = <<>>
    /\ layout = None
    /\ v_pc = "off"
    /\ v_rooms = <<>>
    /\ violations = <<>>

o_vars == <<space, pc, sorted_rooms, i, placed_rooms, layout, v_vars>>

\* agent.py:25-79
CreateSpace ==
    /\ Len(history) < MaxCalls
    /\ \E width \in AgentWidths, rs \in AgentRooms, cs \in AgentConstraints :
          LET made == create_space(width, MaxSpaceHeight, rs, cs)
              arg == <<width, MaxSpaceHeight, rs, cs>>
          IN  IF made = Raised
              THEN /\ current_space' = current_space
                   /\ history' = Append(history, Call("create_space", arg, "ValidationError", None))
              ELSE /\ current_space' = made
                   /\ history' = Append(history, Call("create_space", arg, "", made))
    /\ UNCHANGED <<current_layout, calls, o_vars>>

\* agent.py:81-101, one whole call
GenerateLayout ==
    /\ Len(history) < MaxCalls
    /\ \E arg \in AgentSpaces \cup {None} :
          LET sp == ResolveSpace(arg, current_space)
              made == generate_layout(sp)
          IN  IF sp = None
              THEN /\ current_layout' = current_layout
                   /\ history' = Append(history, Call("generate_layout", arg, "ValueError", None))
              ELSE IF made = Raised
              THEN /\ current_layout' = current_layout
                   /\ history' = Append(history, Call("generate_layout", arg, "TypeError", None))
              ELSE /\ current_layout' = made
                   /\ history' = Append(history, Call("generate_layout", arg, "", made))
    /\ UNCHANGED <<current_space, calls, o_vars>>

\* agent.py:147-153, export_layout_json() up to the dictionary it serializes
ExportLayout ==
    /\ Len(history) < MaxCalls
    /\ IF current_layout = None
       THEN history' = Append(history, Call("export_layout_json", None, "ValueError", None))
       ELSE history' = Append(history, Call("export_layout_json", None, "",
                                            to_json_dict(current_layout)))
    /\ UNCHANGED <<current_space, current_layout, calls, o_vars>>

NextAgent == CreateSpace \/ GenerateLayout \/ ExportLayout

SpecAgent == InitAgent /\ [][NextAgent]_vars

\* ------------------------------------------------------------ concurrent calls
Callers == {1, 2}

\* a generate_layout call in progress: its argument, its locals, what it returned
Caller(at, arg, sp, lay, result) ==
    [pc |-> at, arg |-> arg, space |-> sp, layout |-> lay, result |-> result]

\* two callers enter generate_layout with different arguments, on an agent that has
\* a current_space or has none
InitConcurrent ==
    /\ current_space \in AgentSpaces \cup {None}
    /\ current_layout = None
    /\ history = <<>>
    /\ \E a1, a2 \in AgentSpaces \cup {None} :
          /\ a1 # a2
          /\ calls = <<Caller("called", a1, None, None, None),
                       Caller("called", a2, None, None, None)>>
    /\ space = None
    /\ pc = "off"
    /\ sorted_rooms = <<>>
    /\ i = 1
    /\ placed_rooms = <<>>
    /\ layout = None
    /\ v_pc = "off"
    /\ v_rooms = <<>>
    /\ violations = <<>>

\* agent.py:91-95
Enter(t) ==
    /\ calls[t].pc = "called"
    /\ LET sp == ResolveSpace(calls[t].arg, current_space)
       IN  calls' = [calls EXCEPT ![t] =
                        IF sp = None
                        THEN Caller("ValueError", calls[t].arg, None, None, None)
                        ELSE Caller("entered", calls[t].arg, sp, None, None)]
    /\ UNCHANGED <<current_space, current_layout, history, o_vars>>

\* agent.py:97-98: the optimizer is an object of this call and reads its space only
Optimize(t) ==
    /\ calls[t].pc = "entered"
    /\ LET made == generate_layout(calls[t].space)
       IN  calls' = [calls EXCEPT ![t] =
                        IF made = Raised
                        THEN Caller("TypeError", calls[t].arg, calls[t].space, None, None)
                        ELSE Caller("optimized", calls[t].arg, calls[t].space, made, None)]
    /\ UNCHANGED <<current_space, current_layout, history, o_vars>>

\* agent.py:100
Store(t) ==
    /\ calls[t].pc = "optimized"
    /\ current_layout' = calls[t].layout
    /\ calls' = [calls EXCEPT ![t].pc = "stored"]
    /\ UNCHANGED <<current_space, history, o_vars>>

\* agent.py:101
Return(t) ==
    /\ calls[t].pc = "stored"
    /\ calls' = [calls EXCEPT ![t].pc = "returned", ![t].result = calls[t].layout]
    /\ UNCHANGED <<current_space, current_layout, history, o_vars>>

NextConcurrent == \E t \in Callers : Enter(t) \/ Optimize(t) \/ Store(t) \/ Return(t)

SpecConcurrent == InitConcurrent /\ [][NextConcurrent]_vars

\* ------------------------------------------------------------ properties
\* The rectangle [x, x + width) x [y, y + height) of a dimensions d at corner (x, y).
Disjoint(ax, ay, ad, bx, by, bd) ==
    \/ ax + ad.width <= bx
    \/ bx + bd.width <= ax
    \/ ay + ad.height <= by
    \/ by + bd.height <= ay

RoomsDisjoint(a, b) ==
    Disjoint(a.position.x, a.position.y, a.dimensions,
             b.position.x, b.position.y, b.dimensions)

PairwiseDisjoint(rooms) ==
    \A a, b \in 1..Len(rooms) : a < b => RoomsDisjoint(rooms[a], rooms[b])

\* the grid candidates of a room of dimensions d in space sp, as a set
GridCandidates(sp, d) ==
    {Position(kx * grid_step, ky * grid_step) :
        kx \in {k \in 0..sp.dimensions.width : k * grid_step + d.width <= sp.dimensions.width},
        ky \in {k \in 0..sp.dimensions.height : k * grid_step + d.height <= sp.dimensions.height}}

\* the grid candidates at which the room overlaps none of the rooms of before
FreeCandidates(sp, d, before) ==
    {c \in GridCandidates(sp, d) :
        \A k \in 1..Len(before) :
            Disjoint(c.x, c.y, d, before[k].position.x, before[k].position.y,
                     before[k].dimensions)}

\* c is met before e in the row-major scan
ScannedBefore(c, e) == c.y < e.y \/ (c.y = e.y /\ c.x < e.x)

\* the first collision-free candidate the row-major scan meets
FirstFree(sp, d, before) ==
    CHOOSE c \in FreeCandidates(sp, d, before) :
        \A e \in FreeCandidates(sp, d, before) : e = c \/ ScannedBefore(c, e)

\* The room the placement loop took last, whether it was placed, and the rooms that
\* were placed before it (ids are unique in a request built by create_space).
InLoop == pc \in {"loop", "done"} /\ i > 1

LastRoom == sorted_rooms[i - 1]

LastPlaced ==
    /\ placed_rooms # <<>>
    /\ placed_rooms[Len(placed_rooms)].id = LastRoom.id

LastPosition == placed_rooms[Len(placed_rooms)].position

PlacedBefore ==
    IF LastPlaced THEN SubSeq(placed_rooms, 1, Len(placed_rooms) - 1) ELSE placed_rooms

Returned_ == pc = "done"

\* C1: at every step of the placement loop and in the Layout returned, no two
\* distinct placed rooms overlap under the half-open-interval test.
C1_NoOverlap ==
    /\ PairwiseDisjoint(placed_rooms)
    /\ Returned_ => PairwiseDisjoint(layout.placed_rooms)

\* two rooms were placed and share an edge
C1_Witness ==
    /\ Returned_
    /\ Len(layout.placed_rooms) >= 2
    /\ layout.placed_rooms[2].position.x
         = layout.placed_rooms[1].position.x + layout.placed_rooms[1].dimensions.width
    /\ layout.placed_rooms[2].position.y = layout.placed_rooms[1].position.y

\* C2: every room of the placed_rooms of the Layout returned carries a position and
\* its rectangle lies inside the space.
C2_WithinSpace ==
    Returned_ =>
        \A k \in 1..Len(layout.placed_rooms) :
            LET r == layout.placed_rooms[k]
            IN  /\ r.position # None
                /\ r.position.x >= 0
                /\ r.position.y >= 0
                /\ r.position.x + r.dimensions.width <= space.dimensions.width
                /\ r.position.y + r.dimensions.height <= space.dimensions.height

\* a room was placed away from the origin and reaches the far side of the space
C2_Witness ==
    /\ Returned_
    /\ \E k \in 1..Len(layout.placed_rooms) :
          LET r == layout.placed_rooms[k]
          IN  /\ r.position.x > 0
              /\ r.position.x + r.dimensions.width = space.dimensions.width

\* C3 as claimed: for every set of previously placed rooms, the position the grid
\* search returns is the first collision-free candidate of the row-major scan.
C3_FirstFreeReturned ==
    (InLoop /\ LastPlaced) =>
        LastPosition = FirstFree(space, LastRoom.dimensions, PlacedBefore)

\* C3 as amended: the position the grid search returns is a collision-free candidate
\* with the best score -(x + y) of all collision-free candidates, the first such
\* in the scan; it is the first collision-free candidate met when no room was
\* placed before.
C3_BestFreeReturned ==
    (InLoop /\ LastPlaced) =>
        LET free == FreeCandidates(space, LastRoom.dimensions, PlacedBefore)
        IN  /\ LastPosition \in free
            /\ \A c \in free :
                  \/ LastPosition.x + LastPosition.y < c.x + c.y
                  \/ /\ LastPosition.x + LastPosition.y = c.x + c.y
                     /\ (c = LastPosition \/ ScannedBefore(LastPosition, c))
            /\ PlacedBefore = <<>> =>
                  LastPosition = FirstFree(space, LastRoom.dimensions, PlacedBefore)

\* the room was placed in a later row, at a better score than the first
\* collision-free candidate of the scan
C3_Witness ==
    /\ InLoop
    /\ LastPlaced
    /\ LET first == FirstFree(space, LastRoom.dimensions, PlacedBefore)
       IN  /\ LastPosition # first
           /\ LastPosition.x + LastPosition.y < first.x + first.y

Fits(sp, r) ==
    /\ r.dimensions.width <= sp.dimensions.width
    /\ r.dimensions.height <= sp.dimensions.height

\* room k of the request comes first in priority order among the rooms that fit
FirstFitting(sp, k) ==
    /\ Fits(sp, sp.rooms[k])
    /\ \A j \in 1..Len(sp.rooms) :
          Fits(sp, sp.rooms[j]) =>
              \/ sp.rooms[k].priority > sp.rooms[j].priority
              \/ sp.rooms[k].priority = sp.rooms[j].priority /\ k <= j

PlacedAt(lay, rid, px, py) ==
    \E k \in 1..Len(lay.placed_rooms) :
        /\ lay.placed_rooms[k].id = rid
        /\ lay.placed_rooms[k].position = Position(px, py)

\* C4: the first room in priority order (highest priority, earliest in the request
\* among equals) that fits inside the space is placed at (0,0).
C4_PriorityFirst ==
    Returned_ =>
        \A k \in 1..Len(space.rooms) :
            FirstFitting(space, k) => PlacedAt(layout, space.rooms[k].id, 0, 0)

\* B (priority 1) is requested before A (priority 10); A is at the origin and B is
\* placed elsewhere
C4_Witness ==
    /\ Returned_
    /\ Len(space.rooms) = 2
    /\ space.rooms[1].priority = MinPriority
    /\ space.rooms[2].priority = MaxPriority
    /\ PlacedAt(layout, space.rooms[2].id, 0, 0)
    /\ \E k \in 1..Len(layout.placed_rooms) :
          /\ layout.placed_rooms[k].id = space.rooms[1].id
          /\ layout.placed_rooms[k].position # Position(0, 0)

\* the turn of the requested room r in the placement loop
Turn(r) == CHOOSE k \in 1..Len(sorted_rooms) : sorted_rooms[k].id = r.id

\* the rooms of the result whose turn came before turn k
PlacedBeforeTurn(lay, k) ==
    SelectSeq(lay.placed_rooms, LAMBDA q : Turn(q) < k)

Copies(lay, r) == {k \in 1..Len(lay.placed_rooms) : lay.placed_rooms[k].id = r.id}

\* C5: generate_layout does not fail over a room it cannot place and returns a Layout;
\* a requested room is absent from placed_rooms exactly when, at its turn, no grid
\* position is free of overlap with the rooms placed before it; every other requested
\* room is in placed_rooms exactly once, unchanged but for its position.
C5_Unplaced ==
    /\ pc \in {"start", "loop", "done"}
    /\ pc = "loop" => Len(sorted_rooms) = Len(space.rooms) /\ i \in 1..Len(sorted_rooms) + 1
    /\ Returned_ =>
          /\ \A k \in 1..Len(space.rooms) :
                LET r == space.rooms[k]
                    free == FreeCandidates(space, r.dimensions,
                                           PlacedBeforeTurn(layout, Turn(r)))
                IN  /\ Copies(layout, r) = {} <=> free = {}
                    /\ Cardinality(Copies(layout, r)) <= 1
                    /\ \A c \in Copies(layout, r) :
                          /\ layout.placed_rooms[c].position # None
                          /\ [layout.placed_rooms[c] EXCEPT !.position = None] = r
          /\ \A c \in 1..Len(layout.placed_rooms) :
                \E k \in 1..Len(space.rooms) : layout.placed_rooms[c].id = space.rooms[k].id

\* one requested room does not fit where the first left room and is absent, the other
\* is placed
C5_Witness ==
    /\ Returned_
    /\ Len(space.rooms) = 2
    /\ Len(layout.placed_rooms) = 1
    /\ \A k \in 1..2 : Fits(space, space.rooms[k])

\* C6: the score of the Layout returned is (placed / requested) * 100 (0 when nothing
\* is requested), minus 10 per violation, plus 20 for a utilization in [0.6, 0.8] or
\* 10 for one above 0.8, plus 10 * (1 - mean(x + y) / (width + height)) when a room
\* is placed.
C6_Score ==
    Returned_ =>
        LET rooms == layout.placed_rooms
            n == Len(rooms)
            t == Len(space.rooms)
            area == SumSeq([k \in 1..n |-> rooms[k].dimensions.width * rooms[k].dimensions.height])
            total == space.dimensions.width * space.dimensions.height
            corners == SumSeq([k \in 1..n |-> rooms[k].position.x + rooms[k].position.y])
            far == space.dimensions.width + space.dimensions.height
            placement == IF t = 0 THEN Rat(0, 1) ELSE Rat(100 * n, t)
            penalty == Rat(10 * Len(layout.violations), 1)
            bonus == IF 6 * total <= 10 * area /\ 10 * area <= 8 * total THEN Rat(20, 1)
                     ELSE IF 10 * area > 8 * total THEN Rat(10, 1)
                     ELSE Rat(0, 1)
            compact == IF n > 0 THEN Rat(10 * (n * far - corners), n * far) ELSE Rat(0, 1)
        IN  REq(layout.score, RAdd(RAdd(RSub(placement, penalty), bonus), compact))

\* two rooms are placed, one away from the origin, a constraint is violated and
\* the utilization is in [0.6, 0.8]
C6_Witness ==
    /\ Returned_
    /\ Len(layout.violations) = 1
    /\ Len(layout.placed_rooms) = 2
    /\ layout.placed_rooms[2].position # Position(0, 0)
    /\ 6 * SpaceArea(space) <= 10 * SumArea(layout.placed_rooms)
    /\ 10 * SumArea(layout.placed_rooms) <= 8 * SpaceArea(space)

ScoreBetween(lay, low, high) ==
    RLt(Rat(low, 1), lay.score) /\ RLt(lay.score, Rat(high, 1))

\* C7: for the 10 m x 8 m space with rooms 5x4 (priority 9), 4x3 (8), 3x3 (7) and no
\* constraint, all three rooms are placed, there is no violation, is_valid holds and
\* 100 < score < 130.
C7_Demo ==
    space = DemoSpace =>
        /\ pc # "raised"
        /\ Returned_ =>
              /\ Len(layout.placed_rooms) = 3
              /\ layout.violations = <<>>
              /\ is_valid(layout)
              /\ ScoreBetween(layout, 100, 130)

\* the layout of the demo space is returned
C7_Witness ==
    /\ Returned_
    /\ space = DemoSpace
    /\ layout.space = DemoSpace

\* ---- validate_layout
AfterBounds == v_pc \in {"overlaps", "custom", "done", "raised"}

AfterOverlaps == v_pc \in {"custom", "done", "raised"}

AfterCustom == v_pc \in {"done", "raised"}

\* the number of messages of a kind about a room, or a pair of rooms
Messages(kind, n1, n2) ==
    Cardinality({m \in 1..Len(violations) :
        /\ violations[m].kind = kind
        /\ violations[m].room1 = n1
        /\ violations[m].room2 = n2})

MessagesOfKind(kinds) ==
    Cardinality({m \in 1..Len(violations) : violations[m].kind \in kinds})

TooWide(sp, r) ==
    r.position # None /\ r.position.x + r.dimensions.width > sp.dimensions.width

TooHigh(sp, r) ==
    r.position # None /\ r.position.y + r.dimensions.height > sp.dimensions.height

\* C8: the bounds check emits, for each positioned room, exactly one message if
\* x + width > space.width and, independently, exactly one if y + height >
\* space.height, none for a room that touches the far boundary, none for an
\* unpositioned room.
C8_Bounds ==
    AfterBounds =>
        /\ \A k \in 1..Len(v_rooms) :
              /\ Messages("width", v_rooms[k].name, "")
                   = IF TooWide(space, v_rooms[k]) THEN 1 ELSE 0
              /\ Messages("height", v_rooms[k].name, "")
                   = IF TooHigh(space, v_rooms[k]) THEN 1 ELSE 0
        /\ MessagesOfKind({"width", "height"})
             = Cardinality({k \in 1..Len(v_rooms) : TooWide(space, v_rooms[k])})
               + Cardinality({k \in 1..Len(v_rooms) : TooHigh(space, v_rooms[k])})

\* one room fills the space exactly and has no message, another exceeds both
\* boundaries and has two
C8_Witness ==
    /\ v_pc = "done"
    /\ Len(v_rooms) = 2
    /\ v_rooms[1].position = Position(0, 0)
    /\ v_rooms[1].dimensions = space.dimensions
    /\ TooWide(space, v_rooms[2]) /\ TooHigh(space, v_rooms[2])
    /\ MessagesOfKind({"width", "height"}) = 2

Overlapping(rooms, a, b) ==
    /\ rooms[a].position # None
    /\ rooms[b].position # None
    /\ ~RoomsDisjoint(rooms[a], rooms[b])

\* C9: the overlap check emits exactly one message for each unordered pair of
\* positioned rooms whose rectangles overlap under the half-open test and none for
\* any other pair (rooms sharing an edge or a corner, a pair with an unpositioned room).
C9_Overlaps ==
    AfterOverlaps =>
        /\ \A a, b \in 1..Len(v_rooms) :
              Messages("overlap", v_rooms[a].name, v_rooms[b].name)
                = IF a < b /\ Overlapping(v_rooms, a, b) THEN 1 ELSE 0
        /\ MessagesOfKind({"overlap"})
             = Cardinality({p \in (1..Len(v_rooms)) \X (1..Len(v_rooms)) :
                               p[1] < p[2] /\ Overlapping(v_rooms, p[1], p[2])})

\* two rooms at different corners overlap in part and are reported once
C9_Witness ==
    /\ v_pc = "done"
    /\ Len(v_rooms) = 2
    /\ Overlapping(v_rooms, 1, 2)
    /\ v_rooms[1].position # v_rooms[2].position
    /\ MessagesOfKind({"overlap"}) = 1

\* the room the lookup of an id finds: the first of the list with that id
Found(rooms, rid) ==
    LET with == {k \in 1..Len(rooms) : rooms[k].id = rid}
    IN  IF with = {} THEN None
        ELSE rooms[CHOOSE k \in with : \A j \in with : k <= j]

\* the id under key is missing from the list, or the room found for it is unplaced
Unresolved(rooms, c, key) ==
    \/ key \notin DOMAIN c.params
    \/ Found(rooms, c.params[key]) = None
    \/ Found(rooms, c.params[key]).position = None

Unevaluable(rooms, c) ==
    \/ c.type \notin {"min_distance", "adjacency"}
    \/ Unresolved(rooms, c, "room1")
    \/ Unresolved(rooms, c, "room2")

\* C10: a constraint that cannot be evaluated (a type other than min_distance and
\* adjacency, a referenced id missing from the list, a room found unplaced)
\* contributes no violation and no error.
C10_Skipped ==
    (AfterCustom /\ \A k \in 1..Len(space.constraints) :
                        Unevaluable(v_rooms, space.constraints[k]))
        => /\ v_pc = "done"
           /\ MessagesOfKind({"min_distance", "adjacency"}) = 0

\* a min_distance constraint whose limit is no number, while the first room with
\* the id r2 is unplaced and a later one is placed
C10_Witness ==
    /\ v_pc = "done"
    /\ Len(space.constraints) = 1
    /\ space.constraints[1].type = "min_distance"
    /\ "distance" \in DOMAIN space.constraints[1].params
    /\ ~space.constraints[1].params["distance"].numeric
    /\ Len(v_rooms) = 2
    /\ v_rooms[1].id = "r1" /\ v_rooms[1].position # None
    /\ v_rooms[2].id = "r2" /\ v_rooms[2].position = None

\* ---- custom constraints
\* the limit of constraint c: the number under key, the default when the key is absent
LimitGiven(c, key) == key \in DOMAIN c.params

NumericLimit(c, key) == LimitGiven(c, key) => c.params[key].numeric

LimitOf(c, key, default) == IF LimitGiven(c, key) THEN c.params[key].value ELSE default

LimitKey(c) == IF c.type = "min_distance" THEN "distance" ELSE "max_distance"

\* four times the square of the distance between the centres (x + width/2, y + height/2)
CentreGap(a, b) ==
    LET dx == (2 * a.position.x + a.dimensions.width) - (2 * b.position.x + b.dimensions.width)
        dy == (2 * a.position.y + a.dimensions.height) - (2 * b.position.y + b.dimensions.height)
    IN  dx * dx + dy * dy

GapOf(rooms, c) ==
    CentreGap(Found(rooms, c.params["room1"]), Found(rooms, c.params["room2"]))

\* the distance of the two rooms of c is strictly under the limit of a min_distance
\* constraint, or strictly over the limit of an adjacency constraint
TooClose(rooms, c) ==
    LET limit == LimitOf(c, "distance", 0)
    IN  limit > 0 /\ GapOf(rooms, c) < 4 * limit * limit

TooFar(rooms, c) ==
    LET limit == LimitOf(c, "max_distance", 2 * grid_step)
    IN  GapOf(rooms, c) > 4 * limit * limit

Violated(rooms, c) ==
    /\ ~Unevaluable(rooms, c)
    /\ IF c.type = "min_distance" THEN TooClose(rooms, c) ELSE TooFar(rooms, c)

ViolatedOfType(rooms, cs, type) ==
    {k \in 1..Len(cs) : cs[k].type = type /\ Violated(rooms, cs[k])}

\* C11: when both referenced rooms are found and positioned, a min_distance
\* constraint yields exactly one violation iff the distance between the two centres
\* is strictly less than params.distance (0 when absent), an adjacency constraint
\* exactly one iff it is strictly greater than params.max_distance (1.0 m when
\* absent); a distance equal to the limit is no violation.  (Limits are numbers.)
C11_Distance ==
    (AfterCustom /\ \A k \in 1..Len(space.constraints) :
                        NumericLimit(space.constraints[k], LimitKey(space.constraints[k])))
        => /\ v_pc = "done"
           /\ MessagesOfKind({"min_distance"})
                = Cardinality(ViolatedOfType(v_rooms, space.constraints, "min_distance"))
           /\ MessagesOfKind({"adjacency"})
                = Cardinality(ViolatedOfType(v_rooms, space.constraints, "adjacency"))

\* two placed rooms whose centres are exactly params.distance apart: no violation
C11_Witness ==
    /\ v_pc = "done"
    /\ Len(space.constraints) = 1
    /\ space.constraints[1].type = "min_distance"
    /\ LimitGiven(space.constraints[1], "distance")
    /\ space.constraints[1].params["distance"].numeric
    /\ ~Unevaluable(v_rooms, space.constraints[1])
    /\ GapOf(v_rooms, space.constraints[1])
         = 4 * space.constraints[1].params["distance"].value
             * space.constraints[1].params["distance"].value
    /\ violations = <<>>

\* C12: validate_layout never raises: for every space, every list of rooms and every
\* constraint list, limits that are no numbers included, it returns a list of
\* violations.
C12_NeverRaises == v_pc # "raised"

\* ---- agent
\* the calls of the history that are generate_layout calls that returned
Generated == {k \in 1..Len(history) : history[k].op = "generate_layout" /\ history[k].raised = ""}

Exported == {k \in 1..Len(history) : history[k].op = "export_layout_json" /\ history[k].raised = ""}

\* the Layout a returned export_layout_json call k exported: the one the latest
\* generate_layout call before it returned
LayoutExported(k) ==
    history[CHOOSE g \in Generated : g < k /\ \A h \in Generated : h < k => h <= g].value

\* C13: the utilization of the exported metrics equals the summed area of the placed
\* rooms divided by the space area, for every Layout generate_layout produced, also
\* when requested rooms were left unplaced.
C13_Utilization ==
    \A k \in Exported :
        LET lay == LayoutExported(k)
        IN  REq(history[k].value.metrics.utilization,
                Rat(SumSeq([r \in 1..Len(lay.placed_rooms) |->
                              lay.placed_rooms[r].dimensions.width
                              * lay.placed_rooms[r].dimensions.height]),
                    lay.space.dimensions.width * lay.space.dimensions.height))

\* the same request with no constraint
Unconstrained(sp) == Space(sp.dimensions, sp.rooms, <<>>)

\* C14: the positions generate_layout chooses do not depend on the constraint list:
\* the placed_rooms of the Layout returned are those returned for the space of the
\* same dimensions and rooms with any other constraint list, the empty one included.
C14_ConstraintsIgnored ==
    /\ pc = "loop" =>
          placed_rooms = PlaceRooms(Unconstrained(space), SubSeq(sorted_rooms, 1, i - 1), 1, <<>>)
    /\ Returned_ =>
          layout.placed_rooms = generate_layout(Unconstrained(space)).placed_rooms

\* two rooms are placed and a constraint between them is violated
C14_Witness ==
    /\ Returned_
    /\ space.constraints # <<>>
    /\ Len(layout.placed_rooms) = 2
    /\ layout.violations # <<>>

\* the calls of the history that are create_space calls that returned
Created == {k \in 1..Len(history) : history[k].op = "create_space" /\ history[k].raised = ""}

CreatedBefore(k) == {c \in Created : c < k}

\* the Space the most recent successful create_space before call k stored
LastCreated(k) ==
    history[CHOOSE c \in CreatedBefore(k) : \A d \in CreatedBefore(k) : d <= c].value

\* the Space generate_layout call k is made on: its argument, or without one the
\* Space of the most recent create_space
SpaceOf(k) == IF history[k].arg # None THEN history[k].arg ELSE LastCreated(k)

\* C15: two generate_layout calls on an identical Space return identical
\* placed_rooms, score and violations, whatever calls are made on the agent in
\* between.
C15_Deterministic ==
    \A j, k \in Generated :
        SpaceOf(j) = SpaceOf(k) =>
            /\ history[j].value.placed_rooms = history[k].value.placed_rooms
            /\ REq(history[j].value.score, history[k].value.score)
            /\ history[j].value.violations = history[k].value.violations

\* the same Space is laid out twice, with a layout of another Space generated in
\* between
C15_Witness ==
    /\ Len(history) = 3
    /\ Generated = {1, 2, 3}
    /\ SpaceOf(1) = SpaceOf(3)
    /\ SpaceOf(2) # SpaceOf(1)
    /\ history[1].value.placed_rooms # <<>>
    /\ history[2].value.placed_rooms # history[1].value.placed_rooms

\* the call the step appends to the history
Appended == history' = Append(history, history'[Len(history')])

NewCall == history'[Len(history')]

\* C16: generate_layout called without a Space fails with a ValueError exactly when
\* no create_space call has succeeded on the agent before, and then leaves
\* current_space and current_layout unchanged; in every other state it lays out the
\* Space stored by the most recent successful create_space, returns that Layout and
\* stores it as current_layout.
C16_NoSpace ==
    [][(Appended /\ NewCall.op = "generate_layout" /\ NewCall.arg = None) =>
          IF Created = {}
          THEN /\ NewCall.raised = "ValueError"
               /\ current_space' = current_space
               /\ current_layout' = current_layout
          ELSE /\ NewCall.raised = ""
               /\ NewCall.value.space = LastCreated(Len(history) + 1)
               /\ NewCall.value.space = current_space
               /\ current_layout' = NewCall.value
               /\ current_space' = current_space]_vars

\* generate_layout() fails on the new agent, then succeeds after a create_space
C16_Witness ==
    /\ Len(history) = 3
    /\ history[1].op = "generate_layout" /\ history[1].raised = "ValueError"
    /\ history[2].op = "create_space" /\ history[2].raised = ""
    /\ history[3].op = "generate_layout" /\ history[3].arg = None /\ history[3].raised = ""
    /\ current_layout = history[3].value
    /\ current_layout.space = history[2].value

\* the requested room a placed room was built from
TemplateOf(sp, placed) == sp.rooms[CHOOSE k \in 1..Len(sp.rooms) : sp.rooms[k].id = placed.id]

\* the placed room is a value of its own: the template with a position, while the
\* template has none
NewValue(sp, placed) ==
    /\ \E k \in 1..Len(sp.rooms) : sp.rooms[k].id = placed.id
    /\ placed.position # None
    /\ TemplateOf(sp, placed).position = None
    /\ placed # TemplateOf(sp, placed)
    /\ [placed EXCEPT !.position = None] = TemplateOf(sp, placed)

\* C17: generate_layout does not modify its input: no step changes the space (its
\* rooms, their order and position fields, its constraints, its dimensions), the
\* templates stay unplaced, the Layout carries that space, and every room of
\* placed_rooms is a new value distinct from the template it was built from.
C17_InputUnchanged ==
    /\ [][space' = space]_vars
    /\ [](/\ \A k \in 1..Len(space.rooms) : space.rooms[k].position = None
          /\ \A k \in 1..Len(placed_rooms) : NewValue(space, placed_rooms[k])
          /\ Returned_ =>
                /\ layout.space = space
                /\ \A k \in 1..Len(layout.placed_rooms) :
                      NewValue(space, layout.placed_rooms[k]))

\* both rooms of a request are placed and the request still holds them unplaced
C17_Witness ==
    /\ Returned_
    /\ Len(space.rooms) = 2
    /\ Len(layout.placed_rooms) = 2
    /\ \A k \in 1..2 : layout.space.rooms[k].position = None

\* ---- concurrent calls
\* C18: two generate_layout calls given different Space arguments and interleaved
\* in any order on one agent each return the Layout they return when run alone:
\* the Layout of the caller's own Space, unaffected by the other call.
C18_Independent ==
    \A t \in DOMAIN calls :
        calls[t].arg # None =>
            /\ calls[t].pc # "ValueError"
            /\ calls[t].pc \in {"entered", "optimized", "stored", "returned"} =>
                  calls[t].space = calls[t].arg
            /\ calls[t].pc = "returned" =>
                  /\ calls[t].result = generate_layout(calls[t].arg)
                  /\ calls[t].result.space = calls[t].arg

\* both calls returned, each the layout of its own Space, on an agent whose
\* current_space is a third Space and whose current_layout is the first caller's
C18_Witness ==
    /\ DOMAIN calls = Callers
    /\ \A t \in Callers : calls[t].pc = "returned" /\ calls[t].arg # None
    /\ calls[1].result.placed_rooms # calls[2].result.placed_rooms
    /\ current_space \notin {None, calls[1].arg, calls[2].arg}
    /\ current_layout = calls[1].result

\* ---- the order of the attempts
\* the place of a room in the request (ids are unique in a request)
RequestIndex(sp, r) == CHOOSE k \in 1..Len(sp.rooms) : sp.rooms[k].id = r.id

\* a comes before b: higher priority, or the same priority and earlier in the request
Precedes(sp, a, b) ==
    \/ a.priority > b.priority
    \/ a.priority = b.priority /\ RequestIndex(sp, a) < RequestIndex(sp, b)

Ordered(sp, rooms) ==
    \A j, k \in 1..Len(rooms) : j < k => Precedes(sp, rooms[j], rooms[k])

\* C19: generate_layout attempts the requested rooms in non-increasing priority
\* order, rooms of equal priority in request order, each room exactly once, never
\* going back to a room that could not be placed; so placed_rooms is ordered by
\* non-increasing priority with ties in request order.
C19_AttemptOrder ==
    /\ [](pc \in {"loop", "done"} =>
            /\ Len(sorted_rooms) = Len(space.rooms)
            /\ \A k \in 1..Len(sorted_rooms) :
                  \E r \in 1..Len(space.rooms) : sorted_rooms[k] = space.rooms[r]
            /\ Ordered(space, sorted_rooms)
            /\ Ordered(space, placed_rooms)
            /\ \A k \in 1..Len(placed_rooms) :
                  \E a \in 1..(i - 1) : sorted_rooms[a].id = placed_rooms[k].id)
    /\ [](Returned_ => Ordered(space, layout.placed_rooms))
    /\ [][pc = "loop" =>
            /\ sorted_rooms' = sorted_rooms
            /\ i' \in {i, i + 1}
            /\ i' = i + 1 =>
                  \/ placed_rooms' = placed_rooms
                  \/ /\ Len(placed_rooms') = Len(placed_rooms) + 1
                     /\ SubSeq(placed_rooms', 1, Len(placed_rooms)) = placed_rooms
                     /\ placed_rooms'[Len(placed_rooms')].id = sorted_rooms[i].id
            /\ i' = i => placed_rooms' = placed_rooms]_vars

\* two rooms of the same priority are placed in request order, the second away from
\* the origin
C19_Witness ==
    /\ Returned_
    /\ Len(space.rooms) = 2
    /\ space.rooms[1].priority = space.rooms[2].priority
    /\ Len(layout.placed_rooms) = 2
    /\ layout.placed_rooms[1].id = space.rooms[1].id
    /\ layout.placed_rooms[2].id = space.rooms[2].id
    /\ layout.placed_rooms[1].dimensions # layout.placed_rooms[2].dimensions

\* ---- the grid search
\* C20: the position the grid search returns for a room is a collision-free grid
\* candidate that maximises -(x + y) over all collision-free grid candidates; among
\* those of the same x + y it is the one of the smallest y (met first in the
\* row-major scan); the search returns no position iff no candidate is
\* collision-free.
C20_BestOfAll ==
    InLoop =>
        LET free == FreeCandidates(space, LastRoom.dimensions, PlacedBefore)
        IN  /\ LastPlaced <=> free # {}
            /\ LastPlaced =>
                  /\ LastPosition \in free
                  /\ \A c \in free :
                        /\ -(c.x + c.y) <= -(LastPosition.x + LastPosition.y)
                        /\ c.x + c.y = LastPosition.x + LastPosition.y =>
                              LastPosition.y <= c.y

\* the room was placed in the first row, while a candidate of a later row was free
\* with the same x + y
C20_Witness ==
    /\ InLoop
    /\ LastPlaced
    /\ \E c \in FreeCandidates(space, LastRoom.dimensions, PlacedBefore) :
          /\ c.y > LastPosition.y
          /\ c.x + c.y = LastPosition.x + LastPosition.y

\* ---- the violations of a generated layout
\* the number of entries of a kind in the violations of a Layout
ViolationsOfKind(lay, kind) ==
    Cardinality({m \in 1..Len(lay.violations) : lay.violations[m].kind = kind})

ConstraintsOfType(sp, type) ==
    Cardinality({k \in 1..Len(sp.constraints) : sp.constraints[k].type = type})

\* C21: the violations of a Layout returned by generate_layout hold no bounds and no
\* overlap violation: every entry comes from a min_distance or an adjacency
\* constraint, at most one per such constraint, so there are at most as many
\* violations as such constraints and a space without one yields is_valid = true.
C21_OnlyCustomViolations ==
    Returned_ =>
        /\ \A m \in 1..Len(layout.violations) :
              layout.violations[m].kind \in {"min_distance", "adjacency"}
        /\ ViolationsOfKind(layout, "min_distance") <= ConstraintsOfType(space, "min_distance")
        /\ ViolationsOfKind(layout, "adjacency") <= ConstraintsOfType(space, "adjacency")
        /\ Len(layout.violations)
             <= ConstraintsOfType(space, "min_distance") + ConstraintsOfType(space, "adjacency")
        /\ (ConstraintsOfType(space, "min_distance") + ConstraintsOfType(space, "adjacency") = 0)
              => is_valid(layout)

\* a min_distance and an adjacency constraint are both violated by two placed rooms,
\* the second of which reaches the far side of the space
C21_Witness ==
    /\ Returned_
    /\ Len(space.constraints) = 2
    /\ Len(layout.placed_rooms) = 2
    /\ ViolationsOfKind(layout, "min_distance") = 1
    /\ ViolationsOfKind(layout, "adjacency") = 1
    /\ \E k \in 1..2 :
          layout.placed_rooms[k].position.x + layout.placed_rooms[k].dimensions.width
            = space.dimensions.width

====
